---- MODULE Spec2Model ----
(***************************************************************************)
(* screen-toggle (src/src/main.rs): three threads.                         *)
(*   - the capture thread runs rdev::listen, whose callback sets the wake  *)
(*     flag `updated` and then records the key in the shared key table;    *)
(*   - main (the chord detector) waits for the wake flag, reads the three  *)
(*     chord keys one lock at a time and toggles the desired screen state  *)
(*     when all three are Pressed and the debounce time has passed;        *)
(*   - the enforcement thread polls the desired state and runs             *)
(*     `xset dpms force off|on`.                                           *)
(* Every step below holds at most one access to memory another thread      *)
(* writes.  A thread::sleep changes no program state and is folded into    *)
(* the step before it; the clock advances by the separate Tick step.       *)
(***************************************************************************)
EXTENDS Integers, FiniteSets, TLC

\* ------------------------------------------------------------ constants
DEBOUNCE_MS == 500
BURST == 100

\* ------------------------------------------------------------ bounds
\* The clock advances in steps of one debounce interval, and stops when the
\* debounce timer has run for MaxTicks steps: elapsed is 0, DEBOUNCE_MS (not
\* yet enough) or more.
MaxTicks == 2

TickMs == DEBOUNCE_MS
MaxElapsed == MaxTicks * TickMs
\* sinceToggle is only ever compared with DEBOUNCE_MS: it counts up to here.
SinceCap == DEBOUNCE_MS + TickMs

\* ------------------------------------------------------------ values
ChordKeys == {"ControlLeft", "Alt", "KeyD"}
OtherKeys == {"KeyE"}
Keys == ChordKeys \cup OtherKeys
NoKey == "NoKey"
NoEvent == <<"NoEvent", NoKey>>

\* rdev::EventType as the callback's match sees it: KeyPress(key),
\* KeyRelease(key), and every other kind of event.
KeyEvents(keys) == {"KeyPress", "KeyRelease"} \X keys
OtherEvents == {<<"Other", NoKey>>}
AllEvents == KeyEvents(Keys) \cup OtherEvents
\* The chord keys going down, repeated presses included.
PressEvents == {"KeyPress"} \X ChordKeys

\* What running xset can come to: it ran and exited 0, it ran and exited
\* non-zero, or it could not be spawned or waited for.
Outcomes == {"ok", "nonzero", "spawn_err"}
\* xset installed and the display reachable: it exits 0 or cannot be run.
Ran == {"ok", "spawn_err"}
NoCmd == <<"none", "none">>

VARIABLES
    states,         \* KeyStates: the HashMap<Key, KeyState>, a function on the keys present
    updated,        \* KeyboardState.updated: Mutable<bool>
    pending,        \* the event the callback holds between updated.set(true) and its match
    mpc,            \* main's position
    sample,         \* main: the three get_state results of the match tuple
    cur,            \* ScreenState::toggle's current_state
    elapsed,        \* time_since_last_toggle.elapsed().as_millis()
    state,          \* ScreenStateEnforcer.state (desired state; TRUE is on)
    old_state,      \* ScreenStateEnforcer.old_state
    epc,            \* the enforcement thread's position
    i,              \* the enforcement thread's burst loop counter
    \* history of the run
    lastCmd,        \* the last xset command run and what it came to
    lastSeen,       \* the desired state at the enforcement thread's last load of it
    staleCmds,      \* commands run since the last store to state, while the thread has not yet loaded it
    toggled,        \* a toggle has been stored
    sinceToggle,    \* ms since the last store to state (0 before the first)
    everChord,      \* the key table has held all three chord keys Pressed at once
    heldSinceToggle,\* the chord has stayed Pressed in the table since the last store to state
    chordSampled,   \* a match has seen all three Pressed since the chord last became (in)complete
    listener,       \* the capture thread: rdev::listen "running", or "failed" once it has returned Err
    lastSet,        \* per key, the state of the last set_state call made for it (Released if none)
    togglesOdd,     \* the number of toggles stored so far is odd
    sinceStart,     \* ms since startup, counted until the first toggle is stored
    chordWake,      \* an event of a chord key has raised updated since main last cleared it
    cycleChordWake  \* the wake-up flag main cleared for its current cycle was raised by a chord key

kbVars == <<states, updated, pending, listener>>
mainVars == <<mpc, sample, cur, elapsed>>
enfVars == <<old_state, epc, i>>
histVars == <<lastCmd, lastSeen, staleCmds, toggled, sinceToggle, everChord,
              heldSinceToggle, chordSampled>>
hist2Vars == <<lastSet, togglesOdd, sinceStart, chordWake, cycleChordWake>>
vars == <<kbVars, mainVars, state, enfVars, histVars, hist2Vars>>

\* ------------------------------------------------------------ ScreenState
\* Mutant: the flags start off.
ScreenState_new_off == FALSE

ScreenState_new == TRUE

\* Mutant: is_off reads the flag the wrong way round.
is_off_inverted(s) == s

is_off(s) == ~s
is_on(s) == s

\* PartialEq for ScreenState: other's load, then self's, compared.
ScreenState_eq(self, other) == other = self

set_from(other) == other

toggle_value(current_state) == ~current_state

\* ------------------------------------------------------------ KeyStates
KeyStates_new == << >>

\* entry(key).or_insert(Released): the value returned, and the table after.
get_state(tbl, key) == IF key \in DOMAIN tbl THEN tbl[key] ELSE "Released"

get_state_table(tbl, key) ==
    IF key \in DOMAIN tbl THEN tbl
    ELSE [k \in DOMAIN tbl \cup {key} |-> IF k = key THEN "Released" ELSE tbl[k]]

\* Mutant: or_insert(state) alone, an entry already present is kept.
set_state_insert_only(tbl, key, st) ==
    [k \in DOMAIN tbl \cup {key} |-> IF k \in DOMAIN tbl THEN tbl[k] ELSE st]

\* *entry(key).or_insert(state) = state
set_state(tbl, key, st) ==
    [k \in DOMAIN tbl \cup {key} |-> IF k = key THEN st ELSE tbl[k]]

AllPressed(tbl) == \A k \in ChordKeys : get_state(tbl, k) = "Pressed"

NoSample == <<"Released", "Released", "Released">>

\* Mutant: the debounce timer starts as if the last toggle were long ago.
StartElapsed_expired == DEBOUNCE_MS + TickMs

\* let mut time_since_last_toggle = Instant::now(): nothing has elapsed.
StartElapsed == 0

\* ------------------------------------------------------------ Init
Init ==
    /\ states = KeyStates_new
    /\ updated = FALSE
    /\ pending = NoEvent
    /\ mpc = "wait222"
    /\ sample = NoSample
    /\ cur = ScreenState_new
    /\ elapsed = StartElapsed
    /\ state = ScreenState_new
    /\ old_state = ScreenState_new
    /\ epc = "while85"
    /\ i = 0
    /\ lastCmd = NoCmd
    /\ lastSeen = ScreenState_new
    /\ staleCmds = 0
    /\ toggled = FALSE
    /\ sinceToggle = 0
    /\ everChord = FALSE
    /\ heldSinceToggle = FALSE
    /\ chordSampled = FALSE
    /\ listener = "running"
    /\ lastSet = [k \in Keys |-> "Released"]
    /\ togglesOdd = FALSE
    /\ sinceStart = 0
    /\ chordWake = FALSE
    /\ cycleChordWake = FALSE

\* ------------------------------------------------------------ capture thread
\* The callback's first statement: updated_ptr.set(true).
CallbackSet192(events) ==
    /\ listener = "running"
    /\ pending = NoEvent
    /\ \E ev \in events : pending' = ev
    /\ updated' = TRUE
    /\ chordWake' = (chordWake \/ pending'[2] \in ChordKeys)
    /\ UNCHANGED <<states, listener, mainVars, state, enfVars, histVars,
                   lastSet, togglesOdd, sinceStart, cycleChordWake>>

CallbackTable(tbl, ev) ==
    IF ev[1] = "KeyPress" THEN set_state(tbl, ev[2], "Pressed")
    ELSE IF ev[1] = "KeyRelease" THEN set_state(tbl, ev[2], "Released")
    ELSE tbl

\* The callback's match: set_state for a press or a release, nothing else.
CallbackMatch195 ==
    /\ pending # NoEvent
    /\ states' = CallbackTable(states, pending)
    /\ pending' = NoEvent
    /\ everChord' = (everChord \/ AllPressed(states'))
    /\ heldSinceToggle' = (heldSinceToggle /\ AllPressed(states'))
    /\ chordSampled' = (chordSampled /\ (AllPressed(states') <=> AllPressed(states)))
    /\ lastSet' = IF pending[1] = "KeyPress" THEN [lastSet EXCEPT ![pending[2]] = "Pressed"]
                  ELSE IF pending[1] = "KeyRelease" THEN [lastSet EXCEPT ![pending[2]] = "Released"]
                  ELSE lastSet
    /\ UNCHANGED <<updated, listener, mainVars, state, enfVars,
                   lastCmd, lastSeen, staleCmds, toggled, sinceToggle,
                   togglesOdd, sinceStart, chordWake, cycleChordWake>>

\* listen() returns Err: the error is printed and the capture thread ends.
ListenFail ==
    /\ listener = "running"
    /\ pending = NoEvent
    /\ listener' = "failed"
    /\ UNCHANGED <<states, updated, pending, mainVars, state, enfVars, histVars, hist2Vars>>

\* ------------------------------------------------------------ main
\* Mutant: main goes on only while the enforcement thread is alive.
Wait222_joined ==
    /\ mpc = "wait222"
    /\ updated = TRUE
    /\ epc # "dead"
    /\ mpc' = "set223"
    /\ UNCHANGED <<kbVars, sample, cur, elapsed, state, enfVars, histVars, hist2Vars>>

\* wait_until_next: block_on(updated.signal().wait_for(true)) returns.
Wait222 ==
    /\ mpc = "wait222"
    /\ updated = TRUE
    /\ mpc' = "set223"
    /\ UNCHANGED <<kbVars, sample, cur, elapsed, state, enfVars, histVars, hist2Vars>>

\* wait_until_next: updated.set(false).
Set223 ==
    /\ mpc = "set223"
    /\ updated' = FALSE
    /\ mpc' = "get237"
    /\ cycleChordWake' = chordWake
    /\ chordWake' = FALSE
    /\ UNCHANGED <<states, pending, listener, sample, cur, elapsed, state, enfVars, histVars,
                   lastSet, togglesOdd, sinceStart>>

\* One get_state of the match tuple: its own lock, and the entry inserted.
GetState(pc, n, key, next) ==
    /\ mpc = pc
    /\ sample' = [sample EXCEPT ![n] = get_state(states, key)]
    /\ states' = get_state_table(states, key)
    /\ mpc' = next
    /\ UNCHANGED <<updated, pending, listener, cur, elapsed, state, enfVars, histVars, hist2Vars>>

Get237 == GetState("get237", 1, "ControlLeft", "get238")
Get238 == GetState("get238", 2, "Alt", "get239")
Get239 == GetState("get239", 3, "KeyD", "match241")

Chord(s) == s = <<"Pressed", "Pressed", "Pressed">>

\* Mutant: the debounce test lets the interval's last millisecond through.
Debounced_inclusive(ms) == ms >= DEBOUNCE_MS

Debounced(ms) == ms > DEBOUNCE_MS

\* The match and the debounce test; on success toggle's load of the state.
\* Otherwise the cycle ends (sleep 10 ms) and main waits again.
Match241 ==
    /\ mpc = "match241"
    /\ chordSampled' = (chordSampled \/ Chord(sample))
    /\ IF Chord(sample) /\ Debounced(elapsed)
       THEN /\ cur' = state
            /\ mpc' = "store67"
            /\ UNCHANGED sample
       ELSE /\ mpc' = "wait222"
            /\ sample' = NoSample
            /\ UNCHANGED cur
    /\ UNCHANGED <<kbVars, elapsed, state, enfVars,
                   lastCmd, lastSeen, staleCmds, toggled, sinceToggle, everChord,
                   heldSinceToggle, hist2Vars>>

\* toggle's store.
Store67 ==
    /\ mpc = "store67"
    /\ state' = toggle_value(cur)
    /\ mpc' = "now245"
    /\ toggled' = TRUE
    /\ sinceToggle' = 0
    /\ staleCmds' = 0
    /\ heldSinceToggle' = AllPressed(states)
    /\ togglesOdd' = ~togglesOdd
    /\ sinceStart' = 0
    /\ UNCHANGED <<kbVars, sample, cur, elapsed, enfVars,
                   lastCmd, lastSeen, everChord, chordSampled,
                   lastSet, chordWake, cycleChordWake>>

\* time_since_last_toggle = Instant::now(); then sleep 10 ms and wait again.
Now245 ==
    /\ mpc = "now245"
    /\ elapsed' = 0
    /\ mpc' = "wait222"
    /\ sample' = NoSample
    /\ UNCHANGED <<kbVars, cur, state, enfVars, histVars, hist2Vars>>

\* main's positions: all of them inside its loop, which has no break or return.
MainLoop == {"wait222", "set223", "get237", "get238", "get239", "match241", "store67", "now245"}

Main == Wait222 \/ Set223 \/ Get237 \/ Get238 \/ Get239 \/ Match241 \/ Store67 \/ Now245

\* ------------------------------------------------------------ the clock
Tick ==
    /\ elapsed < MaxElapsed
    /\ elapsed' = elapsed + TickMs
    /\ sinceToggle' = IF ~toggled THEN 0
                      ELSE IF sinceToggle < SinceCap THEN sinceToggle + TickMs
                      ELSE sinceToggle
    /\ sinceStart' = IF toggled THEN 0
                     ELSE IF sinceStart < SinceCap THEN sinceStart + TickMs
                     ELSE sinceStart
    /\ UNCHANGED <<kbVars, mpc, sample, cur, state, enfVars,
                   lastCmd, lastSeen, staleCmds, toggled, everChord,
                   heldSinceToggle, chordSampled,
                   lastSet, togglesOdd, chordWake, cycleChordWake>>

\* ------------------------------------------------------------ enforcement thread
\* send_off_cmd / send_on_cmd: spawn()? and wait_with_output()? are the only
\* errors; the Output's exit status is not looked at.
\* Mutant: the Result is dropped instead of expect()ed.
SendIsErr_ignored(outcome) == FALSE

SendIsErr(outcome) == outcome = "spawn_err"

Stale == state # lastSeen

Bump(n) == IF n < 2 THEN n + 1 ELSE n

\* Mutant: the loop's load of the desired state waits for the key callback,
\* as if it took the key table's lock.
While85_locked ==
    /\ epc = "while85"
    /\ pending = NoEvent
    /\ epc' = IF is_off(state) THEN "off91" ELSE "cmp96"
    /\ lastSeen' = state
    /\ staleCmds' = 0
    /\ UNCHANGED <<kbVars, mainVars, state, old_state, i,
                   lastCmd, toggled, sinceToggle, everChord, heldSinceToggle, chordSampled,
                   hist2Vars>>

\* while state_ptr.is_off()
While85 ==
    /\ epc = "while85"
    /\ epc' = IF is_off(state) THEN "off91" ELSE "cmp96"
    /\ lastSeen' = state
    /\ staleCmds' = 0
    /\ UNCHANGED <<kbVars, mainVars, state, old_state, i,
                   lastCmd, toggled, sinceToggle, everChord, heldSinceToggle, chordSampled,
                   hist2Vars>>

\* Mutant: every off command also records the desired state in old_state.
SendOff91_records(outcomes) ==
    /\ epc = "off91"
    /\ \E outcome \in outcomes :
        /\ lastCmd' = <<"off", outcome>>
        /\ epc' = IF SendIsErr(outcome) THEN "dead" ELSE "while85"
    /\ staleCmds' = IF Stale THEN Bump(staleCmds) ELSE staleCmds
    /\ old_state' = state
    /\ UNCHANGED <<kbVars, mainVars, state, i,
                   lastSeen, toggled, sinceToggle, everChord, heldSinceToggle, chordSampled,
                   hist2Vars>>

\* send_off_cmd().expect(..); sleep 50 ms
SendOff91(outcomes) ==
    /\ epc = "off91"
    /\ \E outcome \in outcomes :
        /\ lastCmd' = <<"off", outcome>>
        /\ epc' = IF SendIsErr(outcome) THEN "dead" ELSE "while85"
    /\ staleCmds' = IF Stale THEN Bump(staleCmds) ELSE staleCmds
    /\ UNCHANGED <<kbVars, mainVars, state, old_state, i,
                   lastSeen, toggled, sinceToggle, everChord, heldSinceToggle, chordSampled,
                   hist2Vars>>

\* if state_ptr != old_state_ptr; when equal, sleep 50 ms and loop
Cmp96 ==
    /\ epc = "cmp96"
    /\ IF ~ScreenState_eq(state, old_state)
       THEN epc' = "on100" /\ i' = 0
       ELSE epc' = "while85" /\ UNCHANGED i
    /\ lastSeen' = state
    /\ staleCmds' = 0
    /\ UNCHANGED <<kbVars, mainVars, state, old_state,
                   lastCmd, toggled, sinceToggle, everChord, heldSinceToggle, chordSampled,
                   hist2Vars>>

\* for _ in 0..100 { send_on_cmd().expect(..); sleep 100 ms }
SendOn100(outcomes) ==
    /\ epc = "on100"
    /\ \E outcome \in outcomes :
        /\ lastCmd' = <<"on", outcome>>
        /\ IF SendIsErr(outcome)
           THEN epc' = "dead" /\ UNCHANGED i
           ELSE /\ i' = i + 1
                /\ epc' = IF i + 1 < BURST THEN "on100" ELSE "setfrom103"
    /\ staleCmds' = IF Stale THEN Bump(staleCmds) ELSE staleCmds
    /\ UNCHANGED <<kbVars, mainVars, state, old_state,
                   lastSeen, toggled, sinceToggle, everChord, heldSinceToggle, chordSampled,
                   hist2Vars>>

\* Mutant: set_from the wrong way round, the desired state is overwritten.
SetFrom103_swapped ==
    /\ epc = "setfrom103"
    /\ state' = set_from(old_state)
    /\ epc' = "while85"
    /\ i' = 0
    /\ lastSeen' = state
    /\ staleCmds' = 0
    /\ UNCHANGED <<kbVars, mainVars, old_state,
                   lastCmd, toggled, sinceToggle, everChord, heldSinceToggle, chordSampled,
                   hist2Vars>>

\* old_state_ptr.set_from(&state_ptr); sleep 50 ms and loop
SetFrom103 ==
    /\ epc = "setfrom103"
    /\ old_state' = set_from(state)
    /\ epc' = "while85"
    /\ i' = 0
    /\ lastSeen' = state
    /\ staleCmds' = 0
    /\ UNCHANGED <<kbVars, mainVars, state,
                   lastCmd, toggled, sinceToggle, everChord, heldSinceToggle, chordSampled,
                   hist2Vars>>

Enforcer(outcomes) ==
    While85 \/ SendOff91(outcomes) \/ Cmp96 \/ SendOn100(outcomes) \/ SetFrom103

\* ------------------------------------------------------------ specifications
Capture(events) == CallbackSet192(events) \/ CallbackMatch195

\* The chord keys going down (repeats included) and ControlLeft coming up.
ReleaseEvents == {<<"KeyRelease", "ControlLeft">>}

Next == Capture(PressEvents) \/ Main \/ Tick \/ Enforcer(Outcomes)

NextKeys == Capture(PressEvents \cup ReleaseEvents) \/ Main \/ Tick \/ Enforcer(Ran)

\* Presses only: the enforcement thread against every timing of the toggles.
Spec == Init /\ [][Next]_vars

\* The same, the enforcement thread being scheduled again and again.
FairSpec == Spec /\ WF_vars(Enforcer(Outcomes))

\* Presses and releases: the chord made, broken and made again (xset exiting 0
\* when it runs: its exit status is never read).
SpecKeys == Init /\ [][NextKeys]_vars

\* A key that is not of the chord going down and up.
NoiseEvents == KeyEvents(OtherKeys)

NextNoise == Capture(PressEvents \cup NoiseEvents) \/ Main \/ Tick \/ Enforcer(Ran)

\* The chord keys going down among presses and releases of another key.
SpecNoise == Init /\ [][NextNoise]_vars

NextListen == Capture(PressEvents) \/ ListenFail \/ Main \/ Tick \/ Enforcer(Ran)

\* The chord keys going down until listen() returns an error, if it does.
SpecListen == Init /\ [][NextListen]_vars

\* The same, main and the enforcement thread being scheduled again and again.
FairListen == SpecListen /\ WF_vars(Main) /\ WF_vars(Enforcer(Ran))

\* ------------------------------------------------------------ claims
\* A step of the enforcement thread that runs xset.
CommandStep == (epc = "off91" \/ epc = "on100") /\ <<epc, i>>' # <<epc, i>>

\* C10: at startup the desired state and old_state are both on, and no xset
\* command of either kind is run before the first toggle is stored.
C10_NoCommandBeforeFirstToggle ==
    ~toggled => (state = TRUE /\ old_state = TRUE /\ lastCmd = NoCmd)

\* The enforcement thread has compared the states and gone round, main has
\* sampled the chord, and still no toggle and no command.
C10_Witness ==
    /\ ~toggled
    /\ epc = "cmp96"
    /\ chordSampled
    /\ lastCmd = NoCmd

C3_OffRepeats ==
    /\ (<>[](state = FALSE /\ epc # "dead")) => []<><<SendOff91(Outcomes)>>_vars
    /\ [][SendOff91(Outcomes) => lastSeen = FALSE]_vars

\* The loop is about to repeat the off command after one that succeeded.
C3_Witness ==
    /\ epc = "off91"
    /\ lastCmd = <<"off", "ok">>
    /\ state = FALSE

\* C1 as stated: when the desired state is on and the last command run was
\* an off command, an on command is eventually run (unless the desired state
\* changes again or the thread has died).
C1_OnFlipIssuesOn ==
    (state = TRUE /\ lastCmd[1] = "off" /\ epc # "dead")
        ~> (state = FALSE \/ lastCmd[1] = "on" \/ epc = "dead")

\* C2 as stated: a burst of on commands starts exactly when the loop has
\* observed the desired state go from off to on: the comparison that follows
\* off commands with the desired state on starts a burst, and a burst starts
\* only with the desired state on.
C2_BurstOncePerOffOn ==
    [][/\ (epc = "cmp96" /\ lastCmd[1] = "off" /\ state = TRUE) => epc' = "on100"
       /\ (epc = "cmp96" /\ epc' = "on100") => state = TRUE]_vars

\* C7 as stated: after a store to the desired state the loop loads it again
\* after at most one command.
C7_ReReadWithinOneCommand == staleCmds <= 1

\* C4 as stated: as long as the key table has never held all three chord keys
\* Pressed at once, the desired state has not changed.
C4_NoChordNoToggle == ~everChord => (~toggled /\ state = TRUE)

\* C5: the desired state changes, and a toggle is accepted, only when more
\* than DEBOUNCE_MS have passed since the last toggle was stored.
C5_Debounce ==
    [][/\ state' # state => (~toggled \/ sinceToggle > DEBOUNCE_MS)
       /\ (mpc = "match241" /\ mpc' = "store67") =>
              (elapsed > DEBOUNCE_MS /\ (~toggled \/ sinceToggle > DEBOUNCE_MS))]_vars

\* After a toggle to off the chord was broken and made again, a cycle sampled
\* it within the interval, and main waits again with the state still off.
C5_Witness ==
    /\ toggled
    /\ state = FALSE
    /\ sinceToggle <= DEBOUNCE_MS
    /\ AllPressed(states)
    /\ ~heldSinceToggle
    /\ chordSampled
    /\ mpc = "wait222"

\* C6 as stated: one activation of the chord toggles the desired state once:
\* no toggle is stored while the chord has stayed Pressed in the key table
\* since the toggle before.
C6_OncePerActivation == [][state' # state => ~heldSinceToggle]_vars

\* C8 as stated: with the chord held in the key table and the debounce
\* interval over, main is not left waiting, with nothing to wake it, for a
\* chord that no sampling cycle has seen.
C8_HeldChordIsSampled ==
    (/\ AllPressed(states)
     /\ elapsed > DEBOUNCE_MS
     /\ pending = NoEvent
     /\ mpc = "wait222"
     /\ ~updated) => chordSampled

\* C11: an iteration of the off loop (the load that finds the desired state
\* off, the off command, the sleep) changes neither the desired state nor
\* old_state, nor anything else of the program but the loop's own position:
\* its only effect is the command that was run.
C11_OffLoopFrame ==
    [][((epc = "while85" /\ epc' = "off91") \/ (epc = "off91" /\ epc' # "off91"))
          => UNCHANGED <<kbVars, mainVars, state, old_state, i>>]_vars

\* The off loop has gone round at least twice: an off command ran and the
\* next load found the desired state still off.
C11_Witness ==
    /\ epc = "off91"
    /\ lastCmd[1] = "off"
    /\ lastSeen = FALSE
    /\ state = FALSE
    /\ old_state = TRUE
    /\ staleCmds = 0
    /\ mpc = "wait222"

\* C14 as stated: once listen() has failed, the process eventually exits (main
\* leaves its loop) or the listener runs again.
C14_ListenFailureIsFatal ==
    (listener = "failed") ~> (listener = "running" \/ mpc \notin MainLoop)

\* C15: key handling never blocks the enforcement thread: wherever the
\* callback and main are, and whatever is in the key table and the wake flag,
\* the thread, unless it has died of a command failure, has a step it can take.
C15_EnforcerNeverBlocked == epc # "dead" => ENABLED Enforcer(Outcomes)

\* The callback is between its two statements, main is in the middle of its
\* three get_state calls, and the thread is in a burst.
C15_Witness ==
    /\ pending # NoEvent
    /\ updated
    /\ mpc = "get238"
    /\ epc = "on100"
    /\ i > 0

\* C12 as stated: an event of a key that is not of the chord never triggers a
\* toggle: the desired state changes only in a cycle of main that an event of
\* a chord key woke (alone or along with others), or with such an event
\* having raised the wake flag again since.
C12_NoiseNeverToggles == [][state' # state => (cycleChordWake \/ chordWake)]_vars

\* C13: at every moment get_state(key) would return the state given by the
\* last completed set_state for that key, or Released if there was none
\* (presses repeated, a release after presses: the last write wins); each
\* get_state main makes returns that value, and leaves what get_state returns
\* for every key as it was.
C13_LastWriteWins ==
    /\ [](\A k \in Keys : get_state(states, k) = lastSet[k])
    /\ [][/\ (mpc = "get237" /\ mpc' # mpc) => sample'[1] = lastSet["ControlLeft"]
          /\ (mpc = "get238" /\ mpc' # mpc) => sample'[2] = lastSet["Alt"]
          /\ (mpc = "get239" /\ mpc' # mpc) => sample'[3] = lastSet["KeyD"]
          /\ (mpc \in {"get237", "get238", "get239"} /\ mpc' # mpc) =>
                 \A k \in Keys : get_state(states', k) = get_state(states, k)]_vars

\* ControlLeft was pressed and released again, Alt pressed, KeyD never set;
\* main has read ControlLeft and Alt and is about to read KeyD, which is not
\* in the table.
C13_Witness ==
    /\ mpc = "get239"
    /\ lastSet["ControlLeft"] = "Released"
    /\ "ControlLeft" \in DOMAIN states
    /\ states["ControlLeft"] = "Released"
    /\ everChord = FALSE
    /\ sample[2] = "Pressed"
    /\ "KeyD" \notin DOMAIN states
    /\ pending = <<"KeyPress", "ControlLeft">>

\* C16: a thread's end ends no other thread. After the enforcement thread
\* has died of a command failure no command is run again, while the callback
\* still takes events and main still has its step whenever it is not waiting
\* for an event: a chord it samples after the debounce interval is accepted
\* and the toggle's store changes the desired state. The step in which a
\* thread ends changes nothing of the others, and with the capture thread
\* ended the enforcement thread still has its step.
C16_FailuresStayLocal ==
    /\ []((epc = "dead" /\ listener = "running" /\ pending = NoEvent)
             => ENABLED CallbackSet192(PressEvents))
    /\ []((epc = "dead" /\ (mpc # "wait222" \/ updated)) => ENABLED Main)
    /\ []((listener = "failed" /\ epc # "dead") => ENABLED Enforcer(Ran))
    /\ [][/\ epc = "dead" => UNCHANGED <<enfVars, lastCmd>>
          /\ (epc = "dead" /\ mpc = "match241" /\ mpc' # mpc
                 /\ sample = <<"Pressed", "Pressed", "Pressed">> /\ elapsed > DEBOUNCE_MS)
                => mpc' = "store67"
          /\ (epc = "dead" /\ mpc = "store67" /\ mpc' # mpc) => state' = ~state
          /\ (epc # "dead" /\ epc' = "dead") => UNCHANGED <<kbVars, mainVars, state>>
          /\ (listener = "running" /\ listener' = "failed")
                => UNCHANGED <<mainVars, state, enfVars>>]_vars

\* Both threads have ended, the enforcement thread on an off command run with
\* the desired state off, and main has since stored a toggle.
C16_Witness ==
    /\ epc = "dead"
    /\ lastCmd = <<"off", "spawn_err">>
    /\ lastSeen = FALSE
    /\ staleCmds = 0
    /\ state = TRUE
    /\ mpc = "now245"
    /\ listener = "failed"

\* C17 as stated: the step that follows the last on command of a burst leaves
\* old_state on.
C17_BurstRecordsOn ==
    [][(epc = "setfrom103" /\ epc' # "setfrom103") => old_state' = TRUE]_vars

\* C18 as stated: an on command is run only while the desired state is on.
C18_OnOnlyWhileOn ==
    [][(epc = "on100" /\ <<epc, i>>' # <<epc, i>>) => state = TRUE]_vars

\* C19: the debounce timer starts at process start. Before the first toggle
\* a match that finds the chord no more than DEBOUNCE_MS after startup is not
\* accepted and changes nothing; one that finds it later is accepted; and the
\* first change of the desired state comes more than DEBOUNCE_MS after
\* startup and sets it off.
C19_FirstChordDebounced ==
    [][/\ (~toggled /\ mpc = "match241" /\ mpc' # mpc
               /\ sample = <<"Pressed", "Pressed", "Pressed">>) =>
              /\ (sinceStart <= DEBOUNCE_MS) => (mpc' = "wait222" /\ state' = state)
              /\ (sinceStart > DEBOUNCE_MS) => mpc' = "store67"
       /\ (~toggled /\ state' # state) => (sinceStart > DEBOUNCE_MS /\ state' = FALSE)]_vars

\* The chord is down, a cycle has sampled it within DEBOUNCE_MS of startup,
\* and main waits again with nothing toggled.
C19_Witness ==
    /\ ~toggled
    /\ sinceStart <= DEBOUNCE_MS
    /\ AllPressed(states)
    /\ chordSampled
    /\ mpc = "wait222"
    /\ state = TRUE

\* C20: the desired state is on exactly when the number of toggles stored so
\* far is even: no toggle's load and store is interleaved with another write,
\* main being the only writer; no step of the enforcement thread changes
\* the desired state.
C20_ToggleParity ==
    /\ [](state = ~togglesOdd)
    /\ [][enfVars' # enfVars => state' = state]_vars

\* Two toggles stored, the second during a burst, which runs on.
C20_Witness ==
    /\ toggled
    /\ ~togglesOdd
    /\ state = TRUE
    /\ epc = "on100"
    /\ i > 0

====
